---------------------------- MODULE Spec2Model ----------------------------
(***************************************************************************)
(* tiny_jrpc: a pool of worker threads pulling HTTP requests from one      *)
(* shared tiny_http server, routing them by verb, validating and           *)
(* dispatching JSON-RPC POSTs to a user handler, and a cooperative         *)
(* shutdown through a shared atomic running flag.                          *)
(*                                                                         *)
(* Strings the code inspects are tuples of one-character strings, so that  *)
(* starts_with and equality are computed.  Option<T> is a tuple of length  *)
(* 0 (None) or 1 (Some).                                                   *)
(***************************************************************************)
EXTENDS Integers, Sequences, FiniteSets, TLC

\* config.num_threads of the modelled server instance
NumThreads == 2
\* Id::Number values a client uses are 1..MaxIdNumber
MaxIdNumber == 1
\* how many times the owner of the server calls stop() / join_threads()
MaxStopCalls == 2
MaxJoinCalls == 2

Workers == 1..NumThreads

None == << >>
Some(x) == << x >>
IsSome(o) == Len(o) = 1
IsNone(o) == Len(o) = 0

-----------------------------------------------------------------------------
(* Strings *)

S_2_0 == << "2", ".", "0" >>
S_1_0 == << "1", ".", "0" >>
S_rpc_dot == << "r", "p", "c", "." >>
S_echo == << "e", "c", "h", "o" >>
S_rpc_x == << "r", "p", "c", ".", "x" >>
S_hi == << "h", "i" >>
S_ok == << "o", "k" >>
S_a == << "a" >>

\* str::starts_with
StartsWith(s, p) == Len(s) >= Len(p) /\ SubSeq(s, 1, Len(p)) = p

-----------------------------------------------------------------------------
(* JSON values (serde_json::Value), as far as the inputs need them *)

JMissing == [t |-> "missing", n |-> 0, s |-> << >>]
JNull == [t |-> "null", n |-> 0, s |-> << >>]
JTrue == [t |-> "bool", n |-> 1, s |-> << >>]
JNum(n) == [t |-> "num", n |-> n, s |-> << >>]
JStr(s) == [t |-> "str", n |-> 0, s |-> s]

(* Id *)
IdNumber(n) == [kind |-> "Number", n |-> n, s |-> << >>]
IdString(s) == [kind |-> "String", n |-> 0, s |-> s]

\* #[serde(untagged)] Id: serialized as the bare payload
IdToJson(id) == IF id.kind = "Number" THEN JNum(id.n) ELSE JStr(id.s)

\* Deserialize for Option<Id>: absent or null is None, a u64 is Number, a
\* string is String, anything else fails.
DecodeId(j) ==
    CASE j.t \in {"missing", "null"} -> [ok |-> TRUE, v |-> None]
      [] j.t = "num" /\ j.n >= 0 -> [ok |-> TRUE, v |-> Some(IdNumber(j.n))]
      [] j.t = "str" -> [ok |-> TRUE, v |-> Some(IdString(j.s))]
      [] OTHER -> [ok |-> FALSE, v |-> None]

\* Deserialize for Request: jsonrpc and method are required strings, id and
\* params are optional.
DecodeRequest(obj) ==
    LET id == DecodeId(obj.id) IN
    IF obj.jsonrpc.t = "str" /\ obj.method.t = "str" /\ id.ok
    THEN [ok |-> TRUE,
          request |-> [jsonrpc |-> obj.jsonrpc.s,
                       id |-> id.v,
                       method |-> obj.method.s,
                       params |-> IF obj.params.t \in {"missing", "null"}
                                  THEN None ELSE Some(obj.params)]]
    ELSE [ok |-> FALSE, request |-> None]

-----------------------------------------------------------------------------
(* Response and its constructors *)

RpcError(code, message, data) == [code |-> code, message |-> message, data |-> data]

\* AsRpcError::as_rpc_error lives in error.rs; the mapping is kept symbolic:
\* the code and message of an error are named after its kind.
AsRpcError(err) == RpcError(err, err, None)

ResponseResult(id, value) ==
    [jsonrpc |-> S_2_0, id |-> id, result |-> Some(value), error |-> None]

ResponseError(id, code, message, data) ==
    [jsonrpc |-> S_2_0, id |-> id, result |-> None,
     error |-> Some(RpcError(code, message, data))]

from_error(id, err) ==
    [jsonrpc |-> S_2_0, id |-> id, result |-> None, error |-> Some(AsRpcError(err))]

ResponseUnimplemented(id, message) ==
    ResponseError(id, "METHOD_NOT_FOUND", message, None)

is_error(r) == IsSome(r.error)
is_result(r) == IsSome(r.result)

\* Serialize without skip_serializing_if: an absent field is emitted (as null)
SerializeKeysNoSkip(r) == {"jsonrpc", "id", "result", "error"}

\* Serialize for Response: jsonrpc and id always, result and error skipped
\* when None (skip_serializing_if = "Option::is_none").
SerializeKeys(r) ==
    {"jsonrpc", "id"}
        \cup (IF IsSome(r.result) THEN {"result"} ELSE {})
        \cup (IF IsSome(r.error) THEN {"error"} ELSE {})

SerializeField(r, k) ==
    CASE k = "jsonrpc" -> JStr(r.jsonrpc)
      [] k = "id" -> IF IsSome(r.id) THEN IdToJson(r.id[1]) ELSE JNull
      [] k = "result" -> IF IsSome(r.result) THEN r.result[1] ELSE JNull
      [] k = "error" ->
            IF IsSome(r.error)
            THEN [code |-> r.error[1].code,
                  message |-> r.error[1].message,
                  data |-> IF IsSome(r.error[1].data) THEN r.error[1].data[1] ELSE JNull]
            ELSE JNull

\* serde_json::to_string(&response): the wire object, key by key
Serialize(r) == [k \in SerializeKeys(r) |-> SerializeField(r, k)]

-----------------------------------------------------------------------------
(* Inputs: what a client can put on the wire and what the environment answers *)

Verbs == {"GET", "OPTIONS", "POST", "PUT"}

H_ContentTypeJson == << "Content-Type", "application/json" >>
H_ContentTypeText == << "Content-Type", "text/plain" >>
H_ContentTypeCharset == << "Content-Type", "application/json; charset=utf-8" >>
H_LowerContentTypeJson == << "content-type", "application/json" >>
H_Cors == << "Access-Control-Allow-Origin", "*" >>
H_Allow == << "Allow", "GET, POST, OPTIONS" >>

\* header lists of the POSTs a client sends
HeaderLists ==
    { << >>,
      << H_ContentTypeJson >>,
      << H_ContentTypeText >>,
      << H_ContentTypeCharset >>,
      << H_LowerContentTypeJson >>,
      << H_ContentTypeText, H_ContentTypeJson >> }

IdJsons == {JMissing} \cup {JNum(n) : n \in 1..MaxIdNumber}

JsonObject(jsonrpc, id, method, params) ==
    [jsonrpc |-> jsonrpc, id |-> id, method |-> method, params |-> params]

\* POST bodies: a body that cannot be read as text, text that is not JSON,
\* and JSON objects, well formed or not
Bodies ==
    { [kind |-> "unreadable", obj |-> JsonObject(JMissing, JMissing, JMissing, JMissing)],
      [kind |-> "not_json", obj |-> JsonObject(JMissing, JMissing, JMissing, JMissing)],
      [kind |-> "object", obj |-> JsonObject(JStr(S_2_0), JNum(1), JMissing, JMissing)],
      [kind |-> "object", obj |-> JsonObject(JStr(S_2_0), JTrue, JStr(S_echo), JMissing)],
      [kind |-> "object", obj |-> JsonObject(JStr(S_2_0), JStr(S_a), JStr(S_echo), JNull)] }
    \cup { [kind |-> "object", obj |-> JsonObject(JStr(v), i, JStr(m), p)] :
              v \in {S_2_0, S_1_0}, i \in IdJsons,
              m \in {S_echo, S_rpc_x}, p \in {JMissing, JStr(S_hi)} }

\* what the file system answers to a GET
FsOutcomes == {"ok", "not_found", "open_error", "read_error"}

\* Config { serve_dir, headers } (num_threads is NumThreads)
Configs ==
    { [serve_dir |-> None, headers |-> << >>],
      [serve_dir |-> Some("dir"), headers |-> << H_Cors >>] }

-----------------------------------------------------------------------------
(* HTTP responses *)

HttpResponse(status, headers, body) ==
    [status |-> status, headers |-> headers, body |-> body]

\* HttpResponse::from_string(message).with_status_code(code)
HttpFromString(message, code) == HttpResponse(code, << >>, message)

\* send_jsonrpc_response: the serialized response, status 200, the configured
\* headers added
JsonRpcHttpResponse(response, headers) ==
    HttpResponse(200, headers, Serialize(response))

-----------------------------------------------------------------------------
(* validate_jsonrpc_request *)

\* index of the first header whose field is exactly "Content-Type", or 0
FindContentType(headers) ==
    IF \E i \in 1..Len(headers) : headers[i][1] = "Content-Type"
    THEN CHOOSE i \in 1..Len(headers) :
            /\ headers[i][1] = "Content-Type"
            /\ \A j \in 1..(i - 1) : headers[j][1] # "Content-Type"
    ELSE 0

\* the value of the header is not looked at
CheckContentTypePresenceOnly(headers) ==
    IF FindContentType(headers) = 0 THEN "NoContentType" ELSE "ok"

\* the checks made before the body is touched: "ok" or the InnerError
CheckContentType(headers) ==
    LET i == FindContentType(headers) IN
    IF i = 0 THEN "NoContentType"
    ELSE IF headers[i][2] # "application/json" THEN "WrongContentType"
    ELSE "ok"

\* read_to_string followed by serde_json::from_str
ParseBody(body) ==
    CASE body.kind = "unreadable" -> [ok |-> FALSE, err |-> "Io", request |-> None]
      [] body.kind = "not_json" -> [ok |-> FALSE, err |-> "Serde", request |-> None]
      [] OTHER ->
            LET d == DecodeRequest(body.obj) IN
            IF d.ok THEN [ok |-> TRUE, err |-> "none", request |-> Some(d.request)]
            ELSE [ok |-> FALSE, err |-> "Serde", request |-> None]

-----------------------------------------------------------------------------
(* handle_jsonrpc_request *)

\* the reserved prefix is not checked
CheckRequestNoReserved(request) ==
    IF request.jsonrpc # S_2_0 THEN "InvalidVersion" ELSE "ok"

\* the version is not checked
CheckRequestNoVersion(request) ==
    IF StartsWith(request.method, S_rpc_dot) THEN "ReservedMethodPrefix" ELSE "ok"

\* the checks made before the handler is called: "ok" or the InnerError
CheckRequest(request) ==
    IF request.jsonrpc # S_2_0 THEN "InvalidVersion"
    ELSE IF StartsWith(request.method, S_rpc_dot) THEN "ReservedMethodPrefix"
    ELSE "ok"

\* Result<Response, Error>
Ok(response) == [tag |-> "Ok", response |-> Some(response), err |-> "none"]
Err(tag, err) == [tag |-> tag, response |-> None, err |-> err]

\* a handler error is answered without the request's id
HandleResultDropsId(id, res) ==
    CASE res.tag = "Ok" -> res
      [] res.tag = "Stop" -> Err("Stop", "Stop")
      [] OTHER -> Ok(from_error(None, res.err))

\* the match on the handler's result: Stop is passed on, every other error
\* becomes an error response with the request's id
HandleResult(id, res) ==
    CASE res.tag = "Ok" -> res
      [] res.tag = "Stop" -> Err("Stop", "Stop")
      [] OTHER -> Ok(from_error(id, res.err))

\* the handler of the tests
process(request) ==
    [jsonrpc |-> request.jsonrpc, id |-> request.id,
     result |-> request.params, error |-> None]

\* what a handler F: Fn(Request, Arc<Mutex<T>>) -> Result<Response, Error>
\* can return, by the kind of handler: the test handler's answer, a response
\* built with the public constructors (with the request's id or without one),
\* or an error
HandlerKinds == {"process", "result", "unimplemented", "stop", "inner", "implementation"}

HandlerResults(request, kinds) ==
    (IF "process" \in kinds /\ request.method = S_echo
     THEN {Ok(process(request))} ELSE {})
    \cup (IF "result" \in kinds
          THEN {Ok(ResponseResult(i, JStr(S_ok))) : i \in {request.id, None}} ELSE {})
    \cup (IF "unimplemented" \in kinds
          THEN {Ok(ResponseUnimplemented(request.id, "unimplemented"))} ELSE {})
    \cup (IF "stop" \in kinds THEN {Err("Stop", "Stop")} ELSE {})
    \cup (IF "inner" \in kinds THEN {Err("Inner", "Io")} ELSE {})
    \cup (IF "implementation" \in kinds
          THEN {Err("Implementation", "Implementation")} ELSE {})

\* The environment of a run: the verbs and header lists clients send, the
\* bodies they post, the answers of the file system, the kinds of handler,
\* what respond() returns (Ok, or the io::Error of a connection that is gone).
AnyRequests ==
    [verbs |-> Verbs, headerLists |-> HeaderLists, bodies |-> Bodies,
     fsOutcomes |-> FsOutcomes, handlers |-> HandlerKinds,
     sendResults |-> {"ok"}]

\* a small environment: every verb, a POST with and without the JSON content
\* type, a well-formed echo request and a body that is not JSON, a file that
\* exists or not, a handler that echoes or returns Stop
FewRequests ==
    [verbs |-> Verbs,
     headerLists |-> { << >>, << H_ContentTypeJson >> },
     bodies |-> { [kind |-> "not_json",
                   obj |-> JsonObject(JMissing, JMissing, JMissing, JMissing)],
                  [kind |-> "object",
                   obj |-> JsonObject(JStr(S_2_0), JNum(1), JStr(S_echo), JStr(S_hi))] },
     fsOutcomes |-> {"ok", "not_found"},
     handlers |-> {"process", "stop"},
     sendResults |-> {"ok"}]

\* an environment in which things go wrong: POSTs without the content type,
\* bodies that are not JSON, a bad version, a reserved method, a handler that
\* fails, files that cannot be opened or read, clients that hang up before
\* the response; and one request of each verb that goes well
FailingRequests ==
    [verbs |-> Verbs,
     headerLists |-> { << >>, << H_ContentTypeJson >> },
     bodies |-> { [kind |-> "not_json",
                   obj |-> JsonObject(JMissing, JMissing, JMissing, JMissing)],
                  [kind |-> "object",
                   obj |-> JsonObject(JStr(S_1_0), JNum(1), JStr(S_echo), JMissing)],
                  [kind |-> "object",
                   obj |-> JsonObject(JStr(S_2_0), JNum(1), JStr(S_rpc_x), JMissing)],
                  [kind |-> "object",
                   obj |-> JsonObject(JStr(S_2_0), JNum(1), JStr(S_echo), JStr(S_hi))] },
     fsOutcomes |-> {"ok", "open_error", "read_error"},
     handlers |-> {"process", "inner", "implementation"},
     sendResults |-> {"ok", "err"}]

-----------------------------------------------------------------------------
(* State *)

VARIABLES
    config,     \* the Config the server was created with
    running,    \* the shared AtomicBool
    pc,         \* per worker: Polling, Routing, Handling, Responding, Sent,
                \* Stopped (the loop was left), Panicked (the thread unwound)
    http,       \* per worker: Option of the tiny_http request it pulled
    body,       \* per worker: Option of the body that was read from it
    request,    \* per worker: Option of the decoded Request
    invoked,    \* per worker: calls of the user handler for this request
    returned,   \* per worker: tag of the handler's result, "none" before
    response,   \* per worker: Option of the JSON-RPC Response built
    out,        \* per worker: Option of the HTTP response about to be sent
    sent,       \* per worker: HTTP responses passed to respond() for this request
    holding,    \* per worker: it holds the lock of the shared state
    file,       \* per worker: what opening and reading the file gave, "none" before
    delivered,  \* per worker: what respond() returned, "none" before
    handles,    \* JsonRpcServer.handles: the workers not yet joined
    mainPc,     \* the owner of the server: idle, join_loop, join_wait
    joinee,     \* the worker whose handle join_threads is joining, or 0
    stopCalls,  \* calls of stop() made
    joinCalls   \* calls of join_threads() made

workerVars == << pc, http, body, request, invoked, returned, response, out, sent, holding,
                file, delivered >>
mainVars == << handles, mainPc, joinee, stopCalls, joinCalls >>
vars == << config, running, workerVars, mainVars >>

\* JsonRpcServer::run: the flag is true, one handle per spawned worker, every
\* worker at the top of its loop
Init ==
    /\ config \in Configs
    /\ running = TRUE
    /\ pc = [w \in Workers |-> "Polling"]
    /\ http = [w \in Workers |-> None]
    /\ body = [w \in Workers |-> None]
    /\ request = [w \in Workers |-> None]
    /\ invoked = [w \in Workers |-> 0]
    /\ returned = [w \in Workers |-> "none"]
    /\ response = [w \in Workers |-> None]
    /\ out = [w \in Workers |-> None]
    /\ file = [w \in Workers |-> "none"]
    /\ delivered = [w \in Workers |-> "none"]
    /\ sent = [w \in Workers |-> << >>]
    /\ holding = [w \in Workers |-> FALSE]
    /\ handles = [i \in 1..NumThreads |-> i]
    /\ mainPc = "idle"
    /\ joinee = 0
    /\ stopCalls = 0
    /\ joinCalls = 0

-----------------------------------------------------------------------------
(* The worker loop *)

\* the loop is not left: a worker that saw the flag false receives again
RecvAfterStopped(w, env) ==
    /\ pc[w] \in {"Polling", "Stopped"}
    /\ \E verb \in env.verbs, hs \in env.headerLists \cup {<< >>}, slash \in BOOLEAN :
          /\ verb # "POST" => hs = << >>
          /\ verb # "GET" => slash
          /\ http' = [http EXCEPT ![w] =
                         Some([verb |-> verb, url_slash |-> slash, headers |-> hs])]
    /\ pc' = [pc EXCEPT ![w] = "Routing"]
    /\ UNCHANGED << config, running, body, request, invoked, returned, response,
                    out, sent, holding, mainVars, file, delivered >>

\* server.recv_timeout returned Ok(Some(request))
Recv(w, env) ==
    /\ pc[w] = "Polling"
    /\ \E verb \in env.verbs, hs \in env.headerLists \cup {<< >>}, slash \in BOOLEAN :
          /\ verb # "POST" => hs = << >>
          /\ verb # "GET" => slash
          /\ http' = [http EXCEPT ![w] =
                         Some([verb |-> verb, url_slash |-> slash, headers |-> hs])]
    /\ pc' = [pc EXCEPT ![w] = "Routing"]
    /\ UNCHANGED << config, running, body, request, invoked, returned, response,
                    out, sent, holding, mainVars, file, delivered >>

\* the timeout arm always continues
RecvTimeoutNoBreak(w) ==
    /\ pc[w] = "Polling"
    /\ UNCHANGED vars

\* Ok(None): the timeout; the only place a worker reads the flag
RecvTimeout(w) ==
    /\ pc[w] = "Polling"
    /\ pc' = [pc EXCEPT ![w] = IF running THEN "Polling" ELSE "Stopped"]
    /\ UNCHANGED << config, running, http, body, request, invoked, returned,
                    response, out, sent, holding, mainVars, file, delivered >>

\* a receive error ends the loop
RecvErrorBreaks(w) ==
    /\ pc[w] = "Polling"
    /\ pc' = [pc EXCEPT ![w] = "Stopped"]
    /\ UNCHANGED << config, running, http, body, request, invoked, returned,
                    response, out, sent, holding, mainVars, file, delivered >>

\* Err(err): logged, the loop continues
RecvError(w) ==
    /\ pc[w] = "Polling"
    /\ UNCHANGED vars

\* an HTTP response is ready for send_http_response / send_jsonrpc_response
Prepare(w, r) ==
    /\ pc' = [pc EXCEPT ![w] = "Responding"]
    /\ out' = [out EXCEPT ![w] = Some(r)]

\* the response of the GET arm once the file system answered
GetResponse(fs) ==
    CASE fs = "ok" -> HttpResponse(200, << >>, "file bytes")
      [] fs = "not_found" -> HttpFromString("404: File not found", 404)
      [] OTHER -> HttpFromString("500: Internal error", 500)

RouteGet(w, env) ==
    /\ pc[w] = "Routing"
    /\ http[w][1].verb = "GET"
    /\ IF IsNone(config.serve_dir)
       THEN /\ Prepare(w, HttpFromString("No serve_dir defined in server config.", 500))
            /\ UNCHANGED << http, file >>
       ELSE IF ~http[w][1].url_slash
       THEN \* expect("url starts with slash") panics: the thread unwinds
            /\ pc' = [pc EXCEPT ![w] = "Panicked"]
            /\ http' = [http EXCEPT ![w] = None]
            /\ UNCHANGED << out, file >>
       ELSE /\ \E fs \in env.fsOutcomes :
                  /\ file' = [file EXCEPT ![w] = fs]
                  /\ Prepare(w, GetResponse(fs))
            /\ UNCHANGED http
    /\ UNCHANGED << config, running, body, request, invoked, returned, response,
                    sent, holding, mainVars, delivered >>

\* the OPTIONS arm forgets the configured headers
RouteOptionsNoConfigHeaders(w) ==
    /\ pc[w] = "Routing"
    /\ http[w][1].verb = "OPTIONS"
    /\ Prepare(w, HttpResponse(204, << H_Allow >>, ""))
    /\ UNCHANGED << config, running, http, body, request, invoked, returned,
                    response, sent, holding, mainVars, file, delivered >>

RouteOptions(w) ==
    /\ pc[w] = "Routing"
    /\ http[w][1].verb = "OPTIONS"
    /\ Prepare(w, HttpResponse(204, << H_Allow >> \o config.headers, ""))
    /\ UNCHANGED << config, running, http, body, request, invoked, returned,
                    response, sent, holding, mainVars, file, delivered >>

RouteOther(w) ==
    /\ pc[w] = "Routing"
    /\ http[w][1].verb \notin {"GET", "OPTIONS", "POST"}
    /\ Prepare(w, HttpFromString("500: Internal error - method not implemented.", 500))
    /\ UNCHANGED << config, running, http, body, request, invoked, returned,
                    response, sent, holding, mainVars, file, delivered >>

\* the Stop arm builds the response but does not clear the flag
RunMatchNoStore(id, res) ==
    CASE res.tag = "Ok" -> [response |-> res.response[1], stop |-> FALSE]
      [] res.tag = "Stop" -> [response |-> from_error(id, "Stop"), stop |-> FALSE]
      [] OTHER -> [response |-> from_error(id, res.err), stop |-> FALSE]

\* the error arms answer without the request's id
RunMatchNoId(id, res) ==
    CASE res.tag = "Ok" -> [response |-> res.response[1], stop |-> FALSE]
      [] res.tag = "Stop" -> [response |-> from_error(None, "Stop"), stop |-> TRUE]
      [] OTHER -> [response |-> from_error(None, res.err), stop |-> FALSE]

\* the match of run on the dispatcher's result: the response to send and
\* whether the flag is cleared first
RunMatch(id, res) ==
    CASE res.tag = "Ok" -> [response |-> res.response[1], stop |-> FALSE]
      [] res.tag = "Stop" -> [response |-> from_error(id, "Stop"), stop |-> TRUE]
      [] OTHER -> [response |-> from_error(id, res.err), stop |-> FALSE]

\* the JSON-RPC response is built and handed to send_jsonrpc_response
PrepareJsonRpc(w, r) ==
    /\ response' = [response EXCEPT ![w] = Some(r)]
    /\ Prepare(w, JsonRpcHttpResponse(r, config.headers))

\* the POST arm is the default arm of the match: every verb but GET and
\* OPTIONS is validated and dispatched
RoutePostAnyOtherVerb(w, env) ==
    /\ pc[w] = "Routing"
    /\ http[w][1].verb \notin {"GET", "OPTIONS"}
    /\ LET ct == CheckContentType(http[w][1].headers) IN
       IF ct # "ok"
       THEN /\ PrepareJsonRpc(w, from_error(None, ct))
            /\ UNCHANGED << body, request, invoked >>
       ELSE \E b \in env.bodies :
            LET p == ParseBody(b) IN
            /\ body' = [body EXCEPT ![w] = Some(b)]
            /\ IF ~p.ok
               THEN /\ PrepareJsonRpc(w, from_error(None, p.err))
                    /\ UNCHANGED << request, invoked >>
               ELSE LET req == p.request[1]
                        chk == CheckRequest(req)
                    IN  /\ request' = [request EXCEPT ![w] = p.request]
                        /\ IF chk # "ok"
                           THEN /\ PrepareJsonRpc(w,
                                       RunMatch(req.id, Err("Inner", chk)).response)
                                /\ UNCHANGED invoked
                           ELSE /\ pc' = [pc EXCEPT ![w] = "Handling"]
                                /\ invoked' = [invoked EXCEPT ![w] = @ + 1]
                                /\ UNCHANGED << response, out >>
    /\ UNCHANGED << config, running, http, returned, sent, holding, mainVars, file, delivered >>

\* the POST arm up to the call of the handler
RoutePost(w, env) ==
    /\ pc[w] = "Routing"
    /\ http[w][1].verb = "POST"
    /\ LET ct == CheckContentType(http[w][1].headers) IN
       IF ct # "ok"
       THEN /\ PrepareJsonRpc(w, from_error(None, ct))
            /\ UNCHANGED << body, request, invoked >>
       ELSE \E b \in env.bodies :
            LET p == ParseBody(b) IN
            /\ body' = [body EXCEPT ![w] = Some(b)]
            /\ IF ~p.ok
               THEN /\ PrepareJsonRpc(w, from_error(None, p.err))
                    /\ UNCHANGED << request, invoked >>
               ELSE LET req == p.request[1]
                        chk == CheckRequest(req)
                    IN  /\ request' = [request EXCEPT ![w] = p.request]
                        /\ IF chk # "ok"
                           THEN /\ PrepareJsonRpc(w,
                                       RunMatch(req.id, Err("Inner", chk)).response)
                                /\ UNCHANGED invoked
                           ELSE /\ pc' = [pc EXCEPT ![w] = "Handling"]
                                /\ invoked' = [invoked EXCEPT ![w] = @ + 1]
                                /\ UNCHANGED << response, out >>
    /\ UNCHANGED << config, running, http, returned, sent, holding, mainVars, file, delivered >>

\* a lock that does not exclude
HandlerLockNoExclusion(w) ==
    /\ pc[w] = "Handling"
    /\ ~holding[w]
    /\ holding' = [holding EXCEPT ![w] = TRUE]
    /\ UNCHANGED << config, running, pc, http, body, request, invoked, returned,
                    response, out, sent, mainVars, file, delivered >>

\* inside the handler: state.lock()
HandlerLock(w) ==
    /\ pc[w] = "Handling"
    /\ \A v \in Workers : ~holding[v]
    /\ holding' = [holding EXCEPT ![w] = TRUE]
    /\ UNCHANGED << config, running, pc, http, body, request, invoked, returned,
                    response, out, sent, mainVars, file, delivered >>

\* inside the handler: the guard is dropped
HandlerUnlock(w) ==
    /\ pc[w] = "Handling"
    /\ holding[w]
    /\ holding' = [holding EXCEPT ![w] = FALSE]
    /\ UNCHANGED << config, running, pc, http, body, request, invoked, returned,
                    response, out, sent, mainVars, file, delivered >>

\* the flag is stored on every result of the handler: false on Stop, true
\* otherwise
HandlerReturnStoresAlways(w, env) ==
    /\ pc[w] = "Handling"
    /\ holding' = [holding EXCEPT ![w] = FALSE]
    /\ \E res \in HandlerResults(request[w][1], env.handlers) :
          LET id == request[w][1].id
              m == RunMatch(id, HandleResult(id, res))
          IN  /\ returned' = [returned EXCEPT ![w] = res.tag]
              /\ running' = ~m.stop
              /\ PrepareJsonRpc(w, m.response)
    /\ UNCHANGED << config, http, body, request, invoked, sent, mainVars, file,
                    delivered >>

\* the handler returns (a guard still held is dropped); on Stop the flag is
\* cleared before the response is built and sent
HandlerReturn(w, env) ==
    /\ pc[w] = "Handling"
    /\ holding' = [holding EXCEPT ![w] = FALSE]
    /\ \E res \in HandlerResults(request[w][1], env.handlers) :
          LET id == request[w][1].id
              m == RunMatch(id, HandleResult(id, res))
          IN  /\ returned' = [returned EXCEPT ![w] = res.tag]
              /\ running' = IF m.stop THEN FALSE ELSE running
              /\ PrepareJsonRpc(w, m.response)
    /\ UNCHANGED << config, http, body, request, invoked, sent, mainVars, file, delivered >>

\* the flag is looked at before the response is sent: once it is false the
\* worker leaves the loop and the request it holds is dropped
RespondUnlessStopped(w, env) ==
    /\ pc[w] = "Responding"
    /\ IF running
       THEN /\ sent' = [sent EXCEPT ![w] = Append(@, out[w][1])]
            /\ \E r \in env.sendResults : delivered' = [delivered EXCEPT ![w] = r]
            /\ pc' = [pc EXCEPT ![w] = "Sent"]
            /\ UNCHANGED http
       ELSE /\ pc' = [pc EXCEPT ![w] = "Stopped"]
            /\ http' = [http EXCEPT ![w] = None]
            /\ UNCHANGED << sent, delivered >>
    /\ out' = [out EXCEPT ![w] = None]
    /\ UNCHANGED << config, running, body, request, invoked, returned,
                    response, holding, mainVars, file >>

\* the response is sent but the arm is not left: it is sent again
RespondAgain(w, env) ==
    /\ pc[w] = "Responding"
    /\ Len(sent[w]) < 2
    /\ sent' = [sent EXCEPT ![w] = Append(@, out[w][1])]
    /\ UNCHANGED << config, running, pc, http, body, request, invoked, returned,
                    response, out, holding, mainVars, file, delivered >>

\* http_request.respond(response): the request is consumed; an Err (the
\* connection is gone) is logged by the caller and nothing else
Respond(w, env) ==
    /\ pc[w] = "Responding"
    /\ sent' = [sent EXCEPT ![w] = Append(@, out[w][1])]
    /\ out' = [out EXCEPT ![w] = None]
    /\ \E r \in env.sendResults : delivered' = [delivered EXCEPT ![w] = r]
    /\ pc' = [pc EXCEPT ![w] = "Sent"]
    /\ UNCHANGED << config, running, http, body, request, invoked, returned,
                    response, holding, mainVars, file >>

\* the flag is the condition of the loop: it is read at the end of the body
LoopWhileRunning(w) ==
    /\ pc[w] = "Sent"
    /\ pc' = [pc EXCEPT ![w] = IF running THEN "Polling" ELSE "Stopped"]
    /\ http' = [http EXCEPT ![w] = None]
    /\ body' = [body EXCEPT ![w] = None]
    /\ request' = [request EXCEPT ![w] = None]
    /\ invoked' = [invoked EXCEPT ![w] = 0]
    /\ returned' = [returned EXCEPT ![w] = "none"]
    /\ response' = [response EXCEPT ![w] = None]
    /\ sent' = [sent EXCEPT ![w] = << >>]
    /\ file' = [file EXCEPT ![w] = "none"]
    /\ delivered' = [delivered EXCEPT ![w] = "none"]
    /\ UNCHANGED << config, running, out, holding, mainVars >>

\* the end of the loop body: the locals are dropped, the worker polls again
Loop(w) ==
    /\ pc[w] = "Sent"
    /\ pc' = [pc EXCEPT ![w] = "Polling"]
    /\ http' = [http EXCEPT ![w] = None]
    /\ body' = [body EXCEPT ![w] = None]
    /\ request' = [request EXCEPT ![w] = None]
    /\ invoked' = [invoked EXCEPT ![w] = 0]
    /\ returned' = [returned EXCEPT ![w] = "none"]
    /\ response' = [response EXCEPT ![w] = None]
    /\ sent' = [sent EXCEPT ![w] = << >>]
    /\ file' = [file EXCEPT ![w] = "none"]
    /\ delivered' = [delivered EXCEPT ![w] = "none"]
    /\ UNCHANGED << config, running, out, holding, mainVars >>

-----------------------------------------------------------------------------
(* The owner of the server *)

\* stop() flips the flag instead of clearing it
StopToggle ==
    /\ mainPc = "idle"
    /\ stopCalls < MaxStopCalls
    /\ running' = ~running
    /\ stopCalls' = stopCalls + 1
    /\ UNCHANGED << config, workerVars, handles, mainPc, joinee, joinCalls >>

\* JsonRpcServer::stop
Stop ==
    /\ mainPc = "idle"
    /\ stopCalls < MaxStopCalls
    /\ running' = FALSE
    /\ stopCalls' = stopCalls + 1
    /\ UNCHANGED << config, workerVars, handles, mainPc, joinee, joinCalls >>

\* JsonRpcServer::is_running
is_running == running

\* JsonRpcServer::join_threads is entered (&mut self: no other call runs)
JoinThreadsCall ==
    /\ mainPc = "idle"
    /\ joinCalls < MaxJoinCalls
    /\ mainPc' = "join_loop"
    /\ joinCalls' = joinCalls + 1
    /\ UNCHANGED << config, running, workerVars, handles, joinee, stopCalls >>

\* while let Some(handle) = self.handles.pop()
JoinThreadsPop ==
    /\ mainPc = "join_loop"
    /\ handles # << >>
    /\ joinee' = handles[Len(handles)]
    /\ handles' = SubSeq(handles, 1, Len(handles) - 1)
    /\ mainPc' = "join_wait"
    /\ UNCHANGED << config, running, workerVars, stopCalls, joinCalls >>

\* handle.join() returns once the thread has finished
JoinThreadsJoin ==
    /\ mainPc = "join_wait"
    /\ pc[joinee] \in {"Stopped", "Panicked"}
    /\ joinee' = 0
    /\ mainPc' = "join_loop"
    /\ UNCHANGED << config, running, workerVars, handles, stopCalls, joinCalls >>

\* pop() returned None: join_threads returns
JoinThreadsReturn ==
    /\ mainPc = "join_loop"
    /\ handles = << >>
    /\ mainPc' = "idle"
    /\ UNCHANGED << config, running, workerVars, handles, joinee, stopCalls, joinCalls >>

-----------------------------------------------------------------------------
(* Specifications *)

\* the steps of a worker that do not depend on a client sending something
WorkerStep(w, env) ==
    \/ RecvTimeout(w)
    \/ RouteGet(w, env)
    \/ RouteOptions(w)
    \/ RouteOther(w)
    \/ RoutePost(w, env)
    \/ HandlerReturn(w, env)
    \/ Respond(w, env)
    \/ Loop(w)

NextIn(env) ==
    \/ \E w \in Workers : Recv(w, env)
    \/ \E w \in Workers : RecvError(w)
    \/ \E w \in Workers : WorkerStep(w, env)
    \/ \E w \in Workers : HandlerLock(w)
    \/ \E w \in Workers : HandlerUnlock(w)
    \/ Stop
    \/ JoinThreadsCall
    \/ JoinThreadsPop
    \/ JoinThreadsJoin
    \/ JoinThreadsReturn

Next == NextIn(AnyRequests)

Spec == Init /\ [][Next]_vars

\* Every thread is scheduled: a timeout ends a wait that delivers nothing, the
\* routing, the answer and the loop proceed, and the handler returns.  Nothing
\* is assumed of the clients (Recv, RecvError) nor of the owner of the server.
Fairness(env) == \A w \in Workers : WF_vars(WorkerStep(w, env))

NextFew == NextIn(FewRequests)

\* the server in the small environment, its threads scheduled fairly
FairSpec == Init /\ [][NextFew]_vars /\ Fairness(FewRequests)

NextFailing == NextIn(FailingRequests)

\* the server in the environment in which things go wrong
FailSpec == Init /\ [][NextFailing]_vars

-----------------------------------------------------------------------------
(* Properties *)

Owns(w) == IsSome(http[w])
IsPost(w) == Owns(w) /\ http[w][1].verb = "POST"
Decoded(w) == IsSome(request[w])
Answering(w) == pc[w] \in {"Responding", "Sent"}

\* the response on the wire is the serialized form of r, an error response
\* whose id is id
WireIsErrorFor(msg, r, id) ==
    /\ msg.body = Serialize(r)
    /\ "error" \in DOMAIN msg.body
    /\ msg.body["id"] = (IF IsSome(id) THEN IdToJson(id[1]) ELSE JNull)

C1_State ==
    \A w \in Workers :
        /\ Len(sent[w]) <= 1
        /\ pc[w] = "Sent" => Len(sent[w]) = 1
        /\ pc[w] \in {"Polling", "Stopped"} => ~Owns(w) /\ sent[w] = << >> /\ IsNone(out[w])

C1_Step ==
    \A w \in Workers :
        \* a response is added only by the step of the worker that owns the request
        /\ sent'[w] # sent[w] /\ sent'[w] # << >> =>
              /\ pc[w] = "Responding" /\ pc'[w] = "Sent"
              /\ sent'[w] = Append(sent[w], out[w][1])
              /\ http'[w] = http[w]
              /\ \A v \in Workers \ {w} : sent'[v] = sent[v] /\ pc'[v] = pc[v]
        \* the worker polls again only after the response went out
        /\ pc[w] # "Polling" /\ pc'[w] = "Polling" => pc[w] = "Sent" /\ Len(sent[w]) = 1
        \* the request a worker holds is not replaced before it polled again
        /\ Owns(w) /\ http'[w] # http[w] => pc'[w] \in {"Polling", "Panicked"}

\* C1: a request a worker pulled gets at most one response, sent by that
\* worker's own step and before the worker polls again; no step of another
\* worker adds a response to it.
C1_OneResponsePerRequest == [](C1_State) /\ [][C1_Step]_vars

\* two workers answer requests of their own at the same time
C1_Witness ==
    \E w, v \in Workers :
        /\ w # v
        /\ pc[w] = "Sent" /\ pc[v] = "Sent"
        /\ http[w][1].verb = "POST" /\ http[v][1].verb = "GET"

C3_ReservedMethodRejected ==
    \A w \in Workers :
        Decoded(w) /\ StartsWith(request[w][1].method, S_rpc_dot) =>
            /\ invoked[w] = 0
            /\ returned[w] = "none"
            /\ Answering(w)
            /\ is_error(response[w][1])
            /\ ~is_result(response[w][1])
            /\ response[w][1].id = request[w][1].id
            /\ pc[w] = "Sent" =>
                  /\ Len(sent[w]) = 1
                  /\ WireIsErrorFor(sent[w][1], response[w][1], request[w][1].id)

\* the answer to {"jsonrpc":"2.0","id":1,"method":"rpc.x"} is on the wire
C3_Witness ==
    \E w \in Workers :
        /\ pc[w] = "Sent"
        /\ Decoded(w)
        /\ request[w][1].method = S_rpc_x
        /\ request[w][1].jsonrpc = S_2_0
        /\ request[w][1].id = Some(IdNumber(1))

\* C4: a decoded POST whose version is not "2.0" is answered with an error
\* response, and the handler is not called.
C4_BadVersionRejected ==
    \A w \in Workers :
        Decoded(w) /\ request[w][1].jsonrpc # S_2_0 =>
            /\ invoked[w] = 0
            /\ returned[w] = "none"
            /\ Answering(w)
            /\ is_error(response[w][1])
            /\ ~is_result(response[w][1])
            /\ pc[w] = "Sent" =>
                  /\ Len(sent[w]) = 1
                  /\ WireIsErrorFor(sent[w][1], response[w][1], request[w][1].id)

\* the answer to {"jsonrpc":"1.0","method":"echo","params":"hi"} is on the wire
C4_Witness ==
    \E w \in Workers :
        /\ pc[w] = "Sent"
        /\ Decoded(w)
        /\ request[w][1].jsonrpc = S_1_0
        /\ request[w][1].method = S_echo
        /\ IsSome(request[w][1].params)

\* the request carries the header Content-Type: application/json
HasJsonContentType(headers) ==
    \E i \in 1..Len(headers) : headers[i] = H_ContentTypeJson

\* C5: a POST without a Content-Type: application/json header has its body
\* never read or decoded, the handler is not called, and the answer is an
\* error response without id.
C5_NoJsonContentTypeRejected ==
    \A w \in Workers :
        IsPost(w) /\ ~HasJsonContentType(http[w][1].headers) =>
            /\ IsNone(body[w])
            /\ ~Decoded(w)
            /\ invoked[w] = 0
            /\ pc[w] \in {"Routing", "Responding", "Sent"}
            /\ Answering(w) =>
                  /\ is_error(response[w][1])
                  /\ IsNone(response[w][1].id)
            /\ pc[w] = "Sent" =>
                  /\ Len(sent[w]) = 1
                  /\ WireIsErrorFor(sent[w][1], response[w][1], None)

\* a POST sent as text/plain has been answered
C5_Witness ==
    \E w \in Workers :
        /\ pc[w] = "Sent"
        /\ IsPost(w)
        /\ http[w][1].headers = << H_ContentTypeText >>

\* C6: when the handler returned Ok for a valid request, the response has
\* exactly one of result and error.
C6_ExactlyOneOfResultAndError ==
    \A w \in Workers :
        Answering(w) /\ returned[w] = "Ok" =>
            is_result(response[w][1]) # is_error(response[w][1])

\* C7: on the wire, a field of {result, error} that is None is no key of the
\* object, and one that is Some is a key with its value.
C7_AbsentFieldOmitted ==
    \A w \in Workers :
        pc[w] = "Sent" /\ IsSome(response[w]) =>
            LET r == response[w][1]
                wire == sent[w][1].body
            IN  /\ ("result" \in DOMAIN wire) = IsSome(r.result)
                /\ ("error" \in DOMAIN wire) = IsSome(r.error)
                /\ IsSome(r.result) => wire["result"] = r.result[1]
                /\ IsSome(r.error) => wire["error"].code = r.error[1].code
                /\ {"jsonrpc", "id"} \subseteq DOMAIN wire

\* a result response and an error response are on the wire
C7_Witness ==
    \E w, v \in Workers :
        /\ pc[w] = "Sent" /\ IsSome(response[w])
        /\ is_result(response[w][1]) /\ ~is_error(response[w][1])
        /\ pc[v] = "Sent" /\ IsSome(response[v])
        /\ is_error(response[v][1]) /\ ~is_result(response[v][1])

\* C8: once the handler returned Stop for a request, the flag is false, in
\* particular before and after the response goes out; the response is the
\* error response for Stop with the request's id, it is sent once, and no other
\* request gets one.
C8_StopClearsFlagThenAnswers ==
    \A w \in Workers :
        /\ returned[w] = "Stop" =>
              /\ ~running
              /\ Answering(w)
              /\ response[w] = Some(from_error(request[w][1].id, "Stop"))
              /\ pc[w] = "Responding" =>
                    sent[w] = << >> /\ out[w] = Some(JsonRpcHttpResponse(response[w][1], config.headers))
              /\ pc[w] = "Sent" =>
                    /\ Len(sent[w]) = 1
                    /\ WireIsErrorFor(sent[w][1], response[w][1], request[w][1].id)
        /\ IsSome(response[w]) /\ is_error(response[w][1])
              /\ response[w][1].error[1].code = "Stop" => returned[w] = "Stop"

\* the answer to a request with id 1 whose handler returned Stop is on the
\* wire, while nobody called stop()
C8_Witness ==
    \E w \in Workers :
        /\ returned[w] = "Stop"
        /\ pc[w] = "Sent"
        /\ request[w][1].id = Some(IdNumber(1))
        /\ stopCalls = 0


\* the thread of the worker has ended
Terminated(w) == pc[w] \in {"Stopped", "Panicked"}

\* C9 as stated: once the flag is false, every worker eventually terminates.
C9_PoolDrains == (~running) ~> (\A w \in Workers : Terminated(w))

\* C9, amended: once the flag is false, is_running() stays false; a worker that
\* holds a request finishes with it, and a polling worker terminates unless it
\* is handed another request first (the flag is read only after a timeout).
C9_DrainsUnlessFed ==
    /\ [][~running => ~is_running']_vars
    /\ \A w \in Workers :
          /\ (~running /\ pc[w] = "Polling") ~> (Terminated(w) \/ pc[w] = "Routing")
          /\ (~running /\ pc[w] \notin {"Polling", "Stopped", "Panicked"})
                ~> (Terminated(w) \/ pc[w] = "Polling")

\* the flag is false and every worker has left its loop
C9_Witness == ~running /\ \A w \in Workers : pc[w] = "Stopped"

C10_State ==
    \* with no handle left, join_threads is not blocked: it can return
    mainPc = "join_loop" /\ handles = << >> => ENABLED JoinThreadsReturn

C10_Step ==
    \* stop() clears the flag and touches nothing else
    /\ stopCalls' = stopCalls + 1 =>
          /\ running' = FALSE
          /\ UNCHANGED << config, workerVars, handles, mainPc, joinee, joinCalls >>
    \* a further stop() changes nothing
    /\ stopCalls >= 1 /\ stopCalls' = stopCalls + 1 =>
          /\ ~running
          /\ UNCHANGED << config, running, workerVars, handles, mainPc, joinee, joinCalls >>
    \* join_threads() entered with no handle left returns at its first step ...
    /\ mainPc = "join_loop" /\ handles = << >> /\ mainPc' # mainPc => mainPc' = "idle"
    \* ... and from its call to its return it has changed nothing
    /\ handles = << >> /\ mainPc \in {"idle", "join_loop"} /\ mainPc' # mainPc =>
          UNCHANGED << config, running, workerVars, handles, joinee, stopCalls >>

\* C10: stop() called again leaves everything as the first call left it, and
\* join_threads() called when every handle has been joined returns without
\* waiting and without changing anything.
C10_StopAndJoinIdempotent == [](C10_State) /\ [][C10_Step]_vars

\* stop() was called twice and join_threads() returned twice
C10_Witness ==
    /\ stopCalls = 2
    /\ joinCalls = 2
    /\ mainPc = "idle"
    /\ handles = << >>
    /\ ~running


\* the handler failed with an error that is not Stop
HandlerFailed(w) == returned[w] \in {"Inner", "Implementation"}

C11_State ==
    \A w \in Workers :
        HandlerFailed(w) =>
            /\ Answering(w)
            /\ invoked[w] = 1
            /\ response[w] = Some(from_error(request[w][1].id,
                                  IF returned[w] = "Inner" THEN "Io" ELSE "Implementation"))
            /\ is_error(response[w][1]) /\ ~is_result(response[w][1])
            /\ response[w][1].id = request[w][1].id
            /\ pc[w] = "Responding" =>
                  out[w] = Some(JsonRpcHttpResponse(response[w][1], config.headers))
            /\ pc[w] = "Sent" =>
                  /\ Len(sent[w]) = 1
                  /\ WireIsErrorFor(sent[w][1], response[w][1], request[w][1].id)

C11_Step ==
    \A w \in Workers :
        \* the step in which the handler fails leaves the flag as it was
        /\ ~HandlerFailed(w) /\ HandlerFailed(w)' => running' = running /\ pc[w] = "Handling"
        \* from there the worker sends the response, then polls again, and none
        \* of its steps touches the flag
        /\ HandlerFailed(w) /\ pc'[w] # pc[w] =>
              /\ \/ pc[w] = "Responding" /\ pc'[w] = "Sent"
                 \/ pc[w] = "Sent" /\ pc'[w] = "Polling"
              /\ running' = running

\* C11: when the handler fails with an error other than Stop, the request is
\* answered with the error response built from that error and the request's
\* own id, the flag keeps its value, and the worker's next steps are sending
\* that response and polling again: it neither stops nor panics.
C11_HandlerErrorRecoverable == [](C11_State) /\ [][C11_Step]_vars

\* a request with id 1 whose handler failed has been answered while the server
\* is still running
C11_Witness ==
    \E w \in Workers :
        /\ returned[w] = "Inner"
        /\ pc[w] = "Sent"
        /\ request[w][1].id = Some(IdNumber(1))
        /\ running


\* C12 as stated: whenever the body of a POST decoded to a Request, the
\* response built for it carries the id of that request.
C12_IdRoundTrip ==
    \A w \in Workers :
        Decoded(w) /\ IsSome(response[w]) => response[w][1].id = request[w][1].id

\* the responses the handler can return for a request
HandlerResponses(req) ==
    { res.response[1] : res \in { r \in HandlerResults(req, HandlerKinds) : r.tag = "Ok" } }

\* C12, amended: the response carries the request's id whenever the server
\* builds it (a bad version, a reserved method, a handler error, Stop) and
\* whenever the handler is the echo handler of the tests; a response the
\* handler returned is sent as it is, with the id the handler gave it.  On the
\* wire the id is the one of the response that was built.
C12_IdRoundTripUnlessHandlerChangesIt ==
    \A w \in Workers :
        Decoded(w) /\ IsSome(response[w]) =>
            /\ returned[w] # "Ok" => response[w][1].id = request[w][1].id
            /\ returned[w] = "Ok" =>
                  /\ response[w][1] \in HandlerResponses(request[w][1])
                  /\ response[w][1] = process(request[w][1]) =>
                        response[w][1].id = request[w][1].id
            /\ pc[w] = "Sent" =>
                  sent[w][1].body["id"] =
                      (IF IsSome(response[w][1].id)
                       THEN IdToJson(response[w][1].id[1]) ELSE JNull)

\* the echo handler answered a request with id 1, and the answer on the wire
\* carries the id 1
C12_Witness ==
    \E w \in Workers :
        /\ pc[w] = "Sent"
        /\ returned[w] = "Ok"
        /\ response[w][1] = process(request[w][1])
        /\ request[w][1].id = Some(IdNumber(1))
        /\ sent[w][1].body["id"] = JNum(1)


\* every header of the configuration is among the headers of the response
CarriesConfigHeaders(msg) ==
    \A i \in 1..Len(config.headers) :
        \E j \in 1..Len(msg.headers) : msg.headers[j] = config.headers[i]

\* C13 as stated: every response the server sends carries the configured
\* extra headers, whatever the verb of the request and whatever the outcome.
C13_ConfigHeadersOnEveryResponse ==
    \A w \in Workers :
        /\ IsSome(out[w]) => CarriesConfigHeaders(out[w][1])
        /\ \A i \in 1..Len(sent[w]) : CarriesConfigHeaders(sent[w][i])


IsOptions(w) == Owns(w) /\ http[w][1].verb = "OPTIONS"

\* the response of the OPTIONS arm
IsOptionsResponse(msg) ==
    /\ msg.status = 204
    /\ msg.headers[1] = H_Allow
    /\ Len(msg.headers) = 1 + Len(config.headers)
    /\ \A i \in 1..Len(config.headers) : msg.headers[1 + i] = config.headers[i]
    /\ msg.body = ""

\* C14: an OPTIONS request that was routed has the 204 response with the Allow
\* header, every configured header and an empty body prepared or sent, once;
\* no body was read, no Request decoded, no handler called and no JSON-RPC
\* response built for it.
C14_OptionsAnswered ==
    \A w \in Workers :
        IsOptions(w) =>
            /\ pc[w] \in {"Routing", "Responding", "Sent"}
            /\ pc[w] = "Responding" => IsSome(out[w]) /\ IsOptionsResponse(out[w][1])
            /\ pc[w] = "Sent" => Len(sent[w]) = 1 /\ IsOptionsResponse(sent[w][1])
            /\ IsNone(body[w]) /\ IsNone(request[w]) /\ IsNone(response[w])
            /\ invoked[w] = 0 /\ returned[w] = "none"

\* an OPTIONS request was answered by a server configured with an extra header
C14_Witness ==
    \E w \in Workers :
        /\ IsOptions(w)
        /\ pc[w] = "Sent"
        /\ config.headers = << H_Cors >>
        /\ sent[w][1].headers = << H_Allow, H_Cors >>


IsGet(w) == Owns(w) /\ http[w][1].verb = "GET"

\* the response the claim gives a GET, by the configuration and by what
\* opening and reading the file gave
C15_State ==
    \A w \in Workers :
        IsGet(w) /\ pc[w] = "Sent" =>
            /\ Len(sent[w]) = 1
            /\ IsNone(config.serve_dir) => sent[w][1].status = 500 /\ file[w] = "none"
            /\ IsSome(config.serve_dir) =>
                  /\ file[w] \in FsOutcomes
                  /\ file[w] = "not_found" =>
                        sent[w][1].status = 404 /\ sent[w][1].body = "404: File not found"
                  /\ file[w] \in {"open_error", "read_error"} => sent[w][1].status = 500
                  /\ file[w] = "ok" =>
                        sent[w][1].status = 200 /\ sent[w][1].body = "file bytes"

\* a GET that was routed is answered
C15_Step ==
    \A w \in Workers :
        IsGet(w) /\ pc[w] = "Routing" /\ pc'[w] # pc[w] => pc'[w] = "Responding"

\* C15 as stated: a GET request is answered, with 500 when no directory is
\* configured, with 404 and "404: File not found" when the file does not
\* exist, with 500 when it cannot be opened or read, with 200 and the file's
\* bytes when it was read.
C15_GetAnswered == [](C15_State) /\ [][C15_Step]_vars


C16_State ==
    \A w \in Workers :
        /\ pc[w] = "Stopped" =>
              /\ ~running
              /\ ~Owns(w) /\ IsNone(out[w]) /\ sent[w] = << >> /\ invoked[w] = 0
        \* the timeout of a polling worker, the flag being false, stops it
        /\ pc[w] = "Polling" /\ ~running =>
              /\ ENABLED (RecvTimeout(w) /\ pc'[w] = "Stopped")
              /\ ~ENABLED (RecvTimeout(w) /\ pc'[w] # "Stopped")

C16_Step ==
    \* the flag never goes back to true
    /\ ~running => ~running'
    /\ \A w \in Workers :
          \* a worker leaves Polling while the flag is false either with a
          \* request that came before its timeout, or for good
          /\ pc[w] = "Polling" /\ ~running /\ pc'[w] # pc[w] =>
                pc'[w] \in {"Routing", "Stopped"}
          \* a worker that saw the flag false starts nothing again
          /\ pc[w] = "Stopped" => pc'[w] = "Stopped" /\ http'[w] = None

\* C16: the flag, once false, stays false; a worker that observed it false (on
\* a timeout) is Stopped, and a Stopped worker never pulls a request again.
C16_NoNewCycleAfterObservingStop == [](C16_State) /\ [][C16_Step]_vars

\* a worker has stopped while the other one is still answering a request
C16_Witness ==
    \E w, v \in Workers :
        /\ pc[w] = "Stopped"
        /\ pc[v] = "Responding"
        /\ IsPost(v)


\* the request of the worker failed: it is answered with an error response
\* that is not the one of Stop (the validation, the version or reserved-method
\* check or the handler failed), or sending its response failed
RequestFailed(w) ==
    \/ IsSome(response[w]) /\ is_error(response[w][1]) /\ returned[w] # "Stop"
    \/ delivered[w] = "err"

C17_State ==
    \A w \in Workers :
        /\ pc[w] = "Stopped" => ~running
        /\ RequestFailed(w) => Answering(w)
        \* a receive error can happen whenever the worker polls, and leaves the
        \* worker polling and the flag as it is
        /\ pc[w] = "Polling" =>
              /\ ENABLED RecvError(w)
              /\ ~ENABLED (RecvError(w) /\ (pc'[w] # "Polling" \/ running' # running))

C17_Step ==
    \A w \in Workers :
        \* Stopped is entered from Polling, the flag being false
        /\ pc[w] # "Stopped" /\ pc'[w] = "Stopped" => pc[w] = "Polling" /\ ~running
        \* the step in which a request fails and the steps of the worker after
        \* it leave the flag alone and lead back to Polling
        /\ (RequestFailed(w) \/ RequestFailed(w)') /\ pc'[w] # pc[w] =>
              /\ running' = running
              /\ \/ pc[w] \in {"Routing", "Handling"} /\ pc'[w] = "Responding"
                 \/ pc[w] = "Responding" /\ pc'[w] = "Sent"
                 \/ pc[w] = "Sent" /\ pc'[w] = "Polling"

\* C17: a worker enters Stopped only from Polling and only while the flag is
\* false.  A receive error leaves the worker polling; a request that fails
\* (validation, version or reserved method, handler error, a response that
\* could not be sent) is answered, the worker goes back to Polling, and none of
\* these steps changes the flag.
C17_OnlyTimeoutStops == [](C17_State) /\ [][C17_Step]_vars

\* the server is running; one worker could not send its response, the other
\* one answers a handler error
C17_Witness ==
    \E w, v \in Workers :
        /\ running
        /\ pc[w] = "Sent" /\ delivered[w] = "err"
        /\ pc[v] = "Sent" /\ returned[v] = "Inner" /\ delivered[v] = "ok"


\* the worker holds a request it has not finished with
InFlight(w) == pc[w] \in {"Routing", "Handling", "Responding", "Sent"}

C18_State ==
    \A w \in Workers :
        /\ Owns(w) <=> InFlight(w)
        \* whatever the flag, the next step of a worker that holds a request
        \* can be taken
        /\ InFlight(w) => ENABLED << WorkerStep(w, AnyRequests) >>_vars

C18_Step ==
    \A w \in Workers :
        \* the step that clears the flag, stop() or the Stop of a handler,
        \* leaves the request of every worker where it is; the worker whose
        \* handler returned Stop goes on to answer its own
        /\ running /\ ~running' /\ Owns(w) =>
              /\ http'[w] = http[w] /\ body'[w] = body[w] /\ request'[w] = request[w]
              /\ invoked'[w] = invoked[w] /\ sent'[w] = sent[w]
              /\ \/ pc'[w] = pc[w] /\ out'[w] = out[w] /\ response'[w] = response[w]
                 \/ pc[w] = "Handling" /\ pc'[w] = "Responding" /\ returned'[w] = "Stop"
        \* with the flag false a worker that holds a request moves as it does
        \* with the flag true: it is never stopped, and it polls again only
        \* after the request was answered
        /\ ~running /\ Owns(w) /\ pc'[w] # pc[w] =>
              /\ \/ pc[w] = "Routing" /\ pc'[w] \in {"Handling", "Responding", "Panicked"}
                 \/ pc[w] = "Handling" /\ pc'[w] = "Responding"
                 \/ pc[w] = "Responding" /\ pc'[w] = "Sent" /\ Len(sent'[w]) = 1
                 \/ pc[w] = "Sent" /\ pc'[w] = "Polling" /\ Len(sent[w]) = 1
              /\ pc'[w] # "Polling" /\ pc'[w] # "Panicked" => http'[w] = http[w]

\* C18: clearing the flag changes nothing of a request a worker holds, and
\* with the flag false that request still goes through routing, the handler
\* and the response, exactly one being sent before the worker polls again; the
\* worker is not stopped while it holds a request.
C18_StopIsCooperative == [](C18_State) /\ [][C18_Step]_vars

\* stop() was called, the flag is false, and a worker has answered the result
\* of the handler it called
C18_Witness ==
    \E w \in Workers :
        /\ ~running /\ stopCalls = 1
        /\ pc[w] = "Sent"
        /\ invoked[w] = 1 /\ returned[w] = "Ok"
        /\ \A v \in Workers : returned[v] # "Stop"


\* C19: a request that is not a POST has no body read, no Request decoded, no
\* handler called and no JSON-RPC response built; one whose verb is none of
\* GET, OPTIONS and POST is answered with status 500.
C19_OnlyPostIsDispatched ==
    \A w \in Workers :
        /\ Owns(w) /\ ~IsPost(w) =>
              /\ IsNone(body[w]) /\ IsNone(request[w]) /\ IsNone(response[w])
              /\ invoked[w] = 0 /\ returned[w] = "none"
              /\ pc[w] \in {"Routing", "Responding", "Sent"}
        /\ IsSome(body[w]) \/ Decoded(w) \/ invoked[w] > 0 \/ IsSome(response[w]) => IsPost(w)
        /\ Owns(w) /\ http[w][1].verb \notin {"GET", "OPTIONS", "POST"} =>
              /\ pc[w] = "Responding" => out[w][1].status = 500
              /\ pc[w] = "Sent" => Len(sent[w]) = 1 /\ sent[w][1].status = 500

\* a PUT was answered with 500 while the other worker is inside the handler
\* for a POST
C19_Witness ==
    \E w, v \in Workers :
        /\ Owns(w) /\ http[w][1].verb = "PUT"
        /\ pc[w] = "Sent" /\ sent[w][1].status = 500
        /\ IsPost(v) /\ pc[v] = "Handling"


C20_State ==
    \A w \in Workers :
        \* a polling worker takes the request that is delivered, the flag
        \* being false or not
        /\ pc[w] = "Polling" => ENABLED Recv(w, AnyRequests)
        \* the handler is called for every well-formed POST, the flag being
        \* false or not
        /\ Decoded(w) /\ CheckRequest(request[w][1]) = "ok" /\ pc[w] # "Routing" =>
              invoked[w] = 1
        /\ ~running /\ InFlight(w) => ENABLED << WorkerStep(w, AnyRequests) >>_vars

C20_Step ==
    \A w \in Workers :
        ~running /\ pc'[w] # pc[w] =>
            \* the flag is read on a timeout only: that is where a worker stops
            /\ pc'[w] = "Stopped" => pc[w] = "Polling" /\ ~Owns(w)
            \* a request delivered now is routed
            /\ pc[w] = "Polling" /\ pc'[w] # "Stopped" => pc'[w] = "Routing" /\ Owns(w)'
            \* a POST that passes the checks gets to the handler, any other
            \* request to its response
            /\ pc[w] = "Routing" =>
                  /\ pc'[w] \in {"Handling", "Responding", "Panicked"}
                  /\ pc'[w] = "Handling" <=>
                        Decoded(w)' /\ CheckRequest(request'[w][1]) = "ok"
            /\ pc[w] = "Handling" => pc'[w] = "Responding"
            /\ pc[w] = "Responding" => pc'[w] = "Sent" /\ Len(sent'[w]) = 1
            \* and once it is answered the worker polls again
            /\ pc[w] = "Sent" => pc'[w] = "Polling"

\* C20: the flag is read after a timeout only.  With the flag false a polling
\* worker still takes a request that is delivered, the request goes through
\* routing, the handler (for a well-formed POST) and the response, and from
\* Sent the worker goes to Polling, never to Stopped.
C20_FlagReadOnlyOnTimeout == [](C20_State) /\ [][C20_Step]_vars

\* Nobody called stop(), so the flag was cleared by the Stop of a handler, and
\* the worker of that handler has looped since (no worker shows Stop as its
\* handler's result): with every worker holding a request, that worker took
\* its request after the flag was false.  Every worker has called the handler
\* and sent its result.
C20_Witness ==
    /\ ~running /\ stopCalls = 0
    /\ \A w \in Workers :
          /\ pc[w] = "Sent"
          /\ invoked[w] = 1 /\ returned[w] = "Ok"
          /\ Len(sent[w]) = 1


C21_Step ==
    \* the flag changes only from true to false, in a call of stop() or in the
    \* step of a worker whose handler returned Stop
    /\ running' # running =>
          /\ running /\ ~running'
          /\ \/ /\ stopCalls' = stopCalls + 1
                /\ workerVars' = workerVars
             \/ /\ stopCalls' = stopCalls
                /\ \E w \in Workers :
                      /\ pc[w] = "Handling" /\ returned'[w] = "Stop"
                      /\ \A v \in Workers \ {w} : pc'[v] = pc[v] /\ returned'[v] = returned[v]
    \* stop() and a handler's Stop leave the flag false
    /\ stopCalls' # stopCalls => ~running'
    /\ (\E w \in Workers : returned[w] # "Stop" /\ returned'[w] = "Stop") => ~running'
    \* is_running() does not answer true after it answered false
    /\ ~is_running => ~is_running'

\* C21: the flag is true when the server is created; it changes only from
\* true to false, by stop() or by the worker whose handler returned Stop; once
\* false it stays false, and so does the answer of is_running().
C21_FlagMonotone == (running = TRUE) /\ (is_running = TRUE) /\ [][C21_Step]_vars

\* stop() was called twice and a handler returned Stop: the flag is false and
\* a worker is answering under it
C21_Witness ==
    /\ ~is_running
    /\ stopCalls = 2
    /\ \E w \in Workers : returned[w] = "Stop" /\ pc[w] = "Responding"
    /\ mainPc = "idle" /\ joinCalls = 0


\* a call of join_threads() is in progress
Joining == mainPc \in {"join_loop", "join_wait"}

C22_State ==
    \* a worker whose handle was joined has terminated
    /\ \A w \in Workers :
          (\A i \in 1..Len(handles) : handles[i] # w) /\ joinee # w => Terminated(w)
    \* while join waits for a worker, that worker can go on
    /\ mainPc = "join_wait" =>
          /\ joinee \in Workers
          /\ InFlight(joinee) => ENABLED << WorkerStep(joinee, AnyRequests) >>_vars

C22_Step ==
    \* a step of join_threads() changes neither the flag nor any worker
    /\ mainVars' # mainVars /\ stopCalls' = stopCalls =>
          running' = running /\ workerVars' = workerVars
    \* join() on a handle returns only when its thread has terminated: a
    \* worker inside the handler is waited for
    /\ mainPc = "join_wait" /\ mainPc' # "join_wait" => Terminated(joinee)
    \* join_threads() returns with every handle joined and every worker
    \* terminated, and not while the flag is true
    /\ Joining /\ mainPc' = "idle" =>
          /\ handles = << >> /\ handles' = << >>
          /\ \A w \in Workers : Terminated(w)
          /\ ~running

\* C22 as stated: join_threads() sets no flag and cancels no worker; it
\* returns only when every worker has terminated and the handle list is
\* empty, hence never while the flag is still true; a worker inside a handler
\* call is waited for.
C22_JoinWaits == [](C22_State) /\ [][C22_Step]_vars

=============================================================================
